---- MODULE Spec2Model ----
\* Model of workclock.py: the punches.txt ledger and the commands that
\* rewrite it (clock in / out / switch) or only read it (status, project
\* report, list).
\*
\* Time.  A datetime is an integer number of ticks, TicksPerSec ticks to the
\* second, so that datetime.now() can carry a sub-second part.  A timestamp
\* string written with strftime("%c") has whole-second resolution and is
\* modelled by its number of seconds.  A timedelta is a number of ticks, and
\* total_seconds() (a float) is that same number of ticks.
\*
\* Text.  A project name, a rendered total and an "h:m" argument are
\* sequences of one-character strings.  A punch field of a project line is
\* the result of punch.split(" -> "): <<in>> for an open punch, <<in, out>>
\* for a closed one.  An optional argument is <<>> when absent (None) and
\* <<v>> when given.
EXTENDS Integers, Sequences, FiniteSets, TLC

----------------------------------------------------------------------------
\* Bounds of the exploration

\* sub-second resolution of datetime.now()
TicksPerSec == 2

\* most punches (open or closed) the ledger may hold before "in"/"switch"
\* are no longer explored
MaxPunches == 3

\* the seconds (since the start of day 0) at which a command may be run
InstantSecs == {32400, 149400}

\* the seconds at which datetime.now() also shows a sub-second part
FracSecs == {32400}

\* project names given on the command line: non-empty, mixed case, one a
\* proper prefix of another, none holding " | " or ":"
RawNames == {<<"a">>, <<"a", "b">>, <<"B">>}

\* hour:minute arguments given on the command line
HMArgs == {<<12, 0>>}

\* fnum is tried on every whole number of seconds up to MaxSmallSecs and on
\* the numbers of seconds in LargeSecs
MaxSmallSecs == 70
LargeSecs == {3599, 3600, 3661, 30600, 86399, 86400, 90061}

----------------------------------------------------------------------------
\* Program constants

SEC_PER_HOUR == 3600
SEC_PER_MIN == 60
SEC_PER_DAY == 24 * SEC_PER_HOUR
YES == "YES"
NO == "NO"
PUNCH_SEP == <<" ", "|", " ">>

\* outcomes of a command
Ok == "Ok"
AlreadyClockedIn == "AlreadyClockedIn"
AlreadyClockedOut == "AlreadyClockedOut"
InvalidClockOutTime == "InvalidClockOutTime"
NoProjectSpecified == "NoProjectSpecified"
NoPunchesYet == "NoPunchesYet"
AttributeError == "AttributeError"
UnpackError == "ValueError"

----------------------------------------------------------------------------
\* Helpers

None == <<>>
Some(v) == <<v>>

Min(S) == CHOOSE x \in S : \A y \in S : x <= y

\* s[:n]
Take(s, n) == SubSeq(s, 1, IF n < Len(s) THEN n ELSE Len(s))

\* s[:-1]
Front(s) == SubSeq(s, 1, Len(s) - 1)

RECURSIVE SumSeq(_)
SumSeq(s) == IF s = <<>> THEN 0 ELSE Head(s) + SumSeq(Tail(s))

\* str.lower() on the alphabet in use
LowerChar(c) == IF c = "A" THEN "a" ELSE IF c = "B" THEN "b" ELSE c
Lower(s) == [i \in 1..Len(s) |-> LowerChar(s[i])]

\* a strftime that rounds the sub-second part up instead of dropping it
Strftime_RoundsUp(t) == (t + TicksPerSec - 1) \div TicksPerSec

\* strftime(TIMEF): "%c" drops the sub-second part
Strftime(t) == t \div TicksPerSec

\* datetime.strptime(s, TIMEF)
Strptime(s) == s * TicksPerSec

\* datetime(now.year, now.month, now.day, h, m)
TodayAt(t, hm) ==
    ((t \div (SEC_PER_DAY * TicksPerSec)) * SEC_PER_DAY
        + hm[1] * SEC_PER_HOUR + hm[2] * SEC_PER_MIN) * TicksPerSec

\* decimal rendering of an integer, as an f-string renders an int
Digit(d) == CASE d = 0 -> "0" [] d = 1 -> "1" [] d = 2 -> "2" [] d = 3 -> "3"
              [] d = 4 -> "4" [] d = 5 -> "5" [] d = 6 -> "6" [] d = 7 -> "7"
              [] d = 8 -> "8" [] d = 9 -> "9"
RECURSIVE NatStr(_)
NatStr(n) == IF n < 10 THEN <<Digit(n)>> ELSE NatStr(n \div 10) \o <<Digit(n % 10)>>
IntStr(n) == IF n < 0 THEN <<"-">> \o NatStr(0 - n) ELSE NatStr(n)

\* the three integers fnum computes from a float number of seconds
fnumParts(sec) ==
    LET hrs == sec \div (SEC_PER_HOUR * TicksPerSec)
        r == sec % (SEC_PER_HOUR * TicksPerSec)
        mins == r \div (SEC_PER_MIN * TicksPerSec)
        s == (r % (SEC_PER_MIN * TicksPerSec)) \div TicksPerSec
    IN <<hrs, mins, s>>

\* fnum: f"{hrs}:{mins}:{sec}"
fnum(sec) ==
    LET p == fnumParts(sec)
    IN IntStr(p[1]) \o <<":">> \o IntStr(p[2]) \o <<":">> \o IntStr(p[3])

----------------------------------------------------------------------------
\* The ledger file

\* the lines parse_file makes up when punches.txt does not exist
FreshLines(t) ==
    [created |-> Strftime(t), last_project |-> <<>>, clocked_in |-> NO,
     projects |-> <<>>]

\* the text of a project line up to and including its total
LineText(rec) == rec.name \o PUNCH_SEP \o rec.total

\* index of the first project line l with l[:len(project)] == project, or 0
FindLine(projects, project) ==
    LET S == {i \in 1..Len(projects) :
                 Take(LineText(projects[i]), Len(project)) = project}
    IN IF S = {} THEN 0 ELSE Min(S)

\* parse_file, "Find the correct project name", on the lines ls read
parse_header(ls, is_finished, project) ==
    IF project = None
    THEN [err |-> IF Len(ls.last_project) = 0 THEN NoProjectSpecified ELSE Ok,
          lines |-> ls, finished |-> is_finished, project |-> ls.last_project]
    ELSE [err |-> Ok, lines |-> ls, finished |-> is_finished,
          project |-> Lower(project[1])]

\* the lines of punches.txt, or those of a new file
read_lines(exists, lines, t) == IF exists THEN lines ELSE FreshLines(t)

\* finished: whether the "Clocked In: " line says NO
finished(ls) == ls.clocked_in = NO

\* parse_file(project) run at datetime t: [err, lines, finished, project]
parse_read(ls, project) == parse_header(ls, finished(ls), project)

parse_file(exists, lines, project, t) ==
    parse_read(read_lines(exists, lines, t), project)

\* timedelta of a closed punch
PunchDelta(punch) == Strptime(punch[2]) - Strptime(punch[1])

\* parse_line, "Process the line": the fields of line read as punches.
\* [err, line, i, last, new, times]
parse_fields(line, i, new, project_in) ==
    LET n == Len(line.punches)
        \* strptime(line[-1]) needs the last field to be one timestamp
        lastOk == project_in \/ (n > 0 /\ Len(line.punches[n]) = 1)
        parsed == IF project_in THEN line.punches ELSE Front(line.punches)
        \* time_in, time_out = punch.split(IN_OUT_SEP)
        unpackOk == \A k \in 1..Len(parsed) : Len(parsed[k]) = 2
    IN [err |-> IF lastOk /\ unpackOk THEN Ok ELSE UnpackError,
        line |-> line, i |-> i, new |-> new,
        last |-> IF project_in \/ ~lastOk THEN None
                 ELSE Some(Strptime(line.punches[n][1])),
        times |-> IF unpackOk
                  THEN [k \in 1..Len(parsed) |-> PunchDelta(parsed[k])]
                  ELSE <<>>]

\* parse_line, after the search: m is the line found, 0 if none
parse_found(ls, project, project_in, m) ==
    IF m = 0
    THEN parse_fields([name |-> project, total |-> <<"0">>, punches |-> <<>>],
                      Len(ls.projects) + 1, TRUE, project_in)
    ELSE parse_fields(ls.projects[m], m, FALSE, project_in)

\* parse_line(lines, project, project_in)
parse_line(ls, project, project_in) ==
    parse_found(ls, project, project_in, FindLine(ls.projects, project))

\* lines.append(line) if new else lines[index] = line
PutLine(projects, new, i, line) ==
    IF new THEN Append(projects, line) ELSE [projects EXCEPT ![i] = line]

\* what a command hands back: its outcome, the file it leaves, its report
Result(out, exists, lines, report) ==
    [outcome |-> out, exists |-> exists, lines |-> lines, report |-> report]

NoReport == [total |-> None, punch |-> None, created |-> FALSE, rows |-> <<>>]

\* a clock_in that writes the line anew with only the new punch
clock_in_write_Truncates(pf, pl, in_time) ==
    LET total == SumSeq(pl.times)
        line == [pl.line EXCEPT !.punches = <<<<Strftime(in_time)>>>>]
    IN Result(Ok, TRUE,
              [pf.lines EXCEPT !.clocked_in = YES,
                               !.last_project = pf.project,
                               !.projects = PutLine(@, pl.new, pl.i, line)],
              [total |-> Some(fnum(total)), punch |-> None, created |-> pl.new, rows |-> <<>>])

\* clock_in from "Format the data" on: pf is what parse_file returned, pl
\* what parse_line returned, in_time the datetime of the punch
clock_in_write(pf, pl, in_time) ==
    LET total == SumSeq(pl.times)
        line == [pl.line EXCEPT !.punches = Append(@, <<Strftime(in_time)>>)]
    IN Result(Ok, TRUE,
              [pf.lines EXCEPT !.clocked_in = YES,
                               !.last_project = pf.project,
                               !.projects = PutLine(@, pl.new, pl.i, line)],
              [total |-> Some(fnum(total)), punch |-> None, created |-> pl.new, rows |-> <<>>])

\* clock_in once the line is parsed
clock_in_line(exists, lines, pf, pl, previous_time, t) ==
    IF pl.err # Ok THEN Result(pl.err, exists, lines, NoReport)
    ELSE clock_in_write(pf, pl, IF previous_time # None
                                THEN TodayAt(t, previous_time[1]) ELSE t)

\* a clock_in that does not test whether a punch is already open
clock_in_file_Unguarded(exists, lines, pf, previous_time, t) ==
    IF pf.err # Ok THEN Result(pf.err, exists, lines, NoReport)
    ELSE clock_in_line(exists, lines, pf,
                       parse_line(pf.lines, pf.project, TRUE),
                       previous_time, t)

\* clock_in once the file is parsed
clock_in_file(exists, lines, pf, previous_time, t) ==
    IF pf.err # Ok THEN Result(pf.err, exists, lines, NoReport)
    ELSE IF ~pf.finished THEN Result(AlreadyClockedIn, exists, lines, NoReport)
    ELSE clock_in_line(exists, lines, pf,
                       parse_line(pf.lines, pf.project, pf.finished),
                       previous_time, t)

\* clock_in(project, previous_time) run at datetime t
clock_in(exists, lines, project, previous_time, t) ==
    clock_in_file(exists, lines, parse_file(exists, lines, project, t),
                  previous_time, t)

\* a clock_out that leaves the punch being closed out of the total
clock_out_write_SkipsPunch(pf, pl, out, punch) ==
    LET total == SumSeq(pl.times)
        n == Len(pl.line.punches)
        line == [pl.line EXCEPT !.punches[n] = Append(@, Strftime(out)),
                                !.total = fnum(total)]
    IN Result(Ok, TRUE,
              [pf.lines EXCEPT !.clocked_in = NO, !.projects[pl.i] = line],
              [total |-> Some(fnum(total)), punch |-> Some(fnum(punch)),
               created |-> FALSE, rows |-> <<>>])

\* clock_out from "Calculations and format conversions" on: out is the
\* datetime of the clock-out, punch the timedelta out - last
clock_out_write(pf, pl, out, punch) ==
    LET total == SumSeq(Append(pl.times, punch))
        n == Len(pl.line.punches)
        line == [pl.line EXCEPT !.punches[n] = Append(@, Strftime(out)),
                                !.total = fnum(total)]
    IN Result(Ok, TRUE,
              [pf.lines EXCEPT !.clocked_in = NO, !.projects[pl.i] = line],
              [total |-> Some(fnum(total)), punch |-> Some(fnum(punch)),
               created |-> FALSE, rows |-> <<>>])

\* clock_out once the line is parsed
clock_out_line(exists, lines, pf, pl, previous_time, t) ==
    IF pl.err # Ok THEN Result(pl.err, exists, lines, NoReport)
    \* previous_time is a str: previous_time.year raises, and the comparison
    \* "out <= last" that follows is never reached
    ELSE IF previous_time # None
         THEN Result(AttributeError, exists, lines, NoReport)
    ELSE clock_out_write(pf, pl, t, t - pl.last[1])

\* a clock_out that does not test whether a punch is open
clock_out_file_Unguarded(exists, lines, pf, previous_time, t) ==
    IF pf.err # Ok THEN Result(pf.err, exists, lines, NoReport)
    ELSE clock_out_line(exists, lines, pf,
                        parse_line(pf.lines, pf.project, FALSE),
                        previous_time, t)

\* clock_out once the file is parsed
clock_out_file(exists, lines, pf, previous_time, t) ==
    IF pf.err # Ok THEN Result(pf.err, exists, lines, NoReport)
    ELSE IF pf.finished THEN Result(AlreadyClockedOut, exists, lines, NoReport)
    ELSE clock_out_line(exists, lines, pf,
                        parse_line(pf.lines, pf.project, pf.finished),
                        previous_time, t)

\* clock_out(previous_time) run at datetime t
clock_out(exists, lines, previous_time, t) ==
    clock_out_file(exists, lines, parse_file(exists, lines, None, t),
                   previous_time, t)

\* switch_project while clocked out: only the header and the target line
switch_write_out(pf, p2, name) ==
    Result(Ok, TRUE,
           [pf.lines EXCEPT !.last_project = name,
                            !.projects = PutLine(@, p2.new, p2.i, p2.line)],
           [total |-> Some(fnum(SumSeq(p2.times))), punch |-> None,
            created |-> p2.new, rows |-> <<>>])

\* switch_project while clocked in: punch1 is the timedelta now - last1
switch_write_in(pf, p1, p2, name, t, punch1) ==
    LET total1 == SumSeq(Append(p1.times, punch1))
        n1 == Len(p1.line.punches)
        line1 == [p1.line EXCEPT !.punches[n1] = Append(@, Strftime(t)),
                                 !.total = fnum(total1)]
        line2 == [p2.line EXCEPT !.punches = Append(@, <<Strftime(t)>>)]
    IN Result(Ok, TRUE,
              [pf.lines EXCEPT
                  !.last_project = name,
                  !.projects = PutLine([@ EXCEPT ![p1.i] = line1],
                                       p2.new, p2.i, line2)],
              [total |-> Some(fnum(SumSeq(p2.times))),
               punch |-> Some(fnum(punch1)), created |-> p2.new, rows |-> <<>>])

\* switch_project once both lines are parsed
switch_lines(exists, lines, pf, p1, p2, name, t) ==
    IF p1.err # Ok THEN Result(p1.err, exists, lines, NoReport)
    ELSE IF p2.err # Ok THEN Result(p2.err, exists, lines, NoReport)
    ELSE IF pf.finished THEN switch_write_out(pf, p2, name)
    ELSE switch_write_in(pf, p1, p2, name, t, t - p1.last[1])

\* switch_project once the file is parsed
switch_file(exists, lines, pf, name, t) ==
    IF pf.err # Ok THEN Result(pf.err, exists, lines, NoReport)
    ELSE switch_lines(exists, lines, pf,
                      parse_line(pf.lines, pf.project, pf.finished),
                      parse_line(pf.lines, name, TRUE), name, t)

\* switch_project(project) run at datetime t
switch_project(exists, lines, project, t) ==
    switch_file(exists, lines, parse_file(exists, lines, None, t),
                Lower(project), t)

\* check_time once the line is parsed: reads only
check_time_line(exists, lines, pf, pl, t) ==
    IF pl.err # Ok THEN Result(pl.err, exists, lines, NoReport)
    ELSE IF pf.finished
    THEN Result(Ok, exists, lines,
                [total |-> Some(fnum(SumSeq(pl.times))), punch |-> None,
                 created |-> FALSE, rows |-> <<>>])
    ELSE Result(Ok, exists, lines,
                [total |-> Some(fnum(SumSeq(Append(pl.times, t - pl.last[1])))),
                 punch |-> Some(fnum(t - pl.last[1])), created |-> FALSE,
                 rows |-> <<>>])

\* check_time once the file is parsed
check_time_file(exists, lines, pf, t) ==
    IF pf.err # Ok THEN Result(pf.err, exists, lines, NoReport)
    ELSE check_time_line(exists, lines, pf,
                         parse_line(pf.lines, pf.project, pf.finished), t)

\* check_time() run at datetime t
check_time(exists, lines, t) ==
    check_time_file(exists, lines, parse_file(exists, lines, None, t), t)

\* a report_project that writes the line it looked up back to the file
report_project_line_Saves(exists, lines, pl, line_finished, t) ==
    IF pl.err # Ok THEN Result(pl.err, exists, lines, NoReport)
    ELSE Result(Ok, exists,
                [lines EXCEPT !.projects = PutLine(@, pl.new, pl.i, pl.line)],
                [total |-> Some(fnum(SumSeq(pl.times))), punch |-> None,
                 created |-> pl.new, rows |-> pl.line.punches])

\* report_project once the line is parsed: reads only
report_project_line(exists, lines, pl, line_finished, t) ==
    IF pl.err # Ok THEN Result(pl.err, exists, lines, NoReport)
    ELSE IF line_finished
    THEN Result(Ok, exists, lines,
                [total |-> Some(fnum(SumSeq(pl.times))), punch |-> None,
                 created |-> pl.new, rows |-> pl.line.punches])
    ELSE Result(Ok, exists, lines,
                [total |-> Some(fnum(SumSeq(Append(pl.times, t - pl.last[1])))),
                 punch |-> Some(fnum(t - pl.last[1])), created |-> pl.new,
                 rows |-> pl.line.punches])

\* report_project once the project and line_finished are settled
report_project_named(exists, lines, pf, project, line_finished, t) ==
    report_project_line(exists, lines,
                        parse_line(pf.lines, project, line_finished),
                        line_finished, t)

\* report_project once the file is parsed
report_project_file(exists, lines, pf, project, t) ==
    IF pf.err # Ok THEN Result(pf.err, exists, lines, NoReport)
    ELSE IF project = None
    THEN report_project_named(exists, lines, pf, pf.project, pf.finished, t)
    ELSE report_project_named(exists, lines, pf, Lower(project[1]),
                              IF Lower(project[1]) = pf.project
                              THEN pf.finished ELSE TRUE, t)

\* report_project(project) run at datetime t
report_project(exists, lines, project, t) ==
    report_project_file(exists, lines, parse_file(exists, lines, None, t),
                        project, t)

\* the line list_projects prints for one project: <<proj, hours>>
list_row(line, project, addon) ==
    <<line.name, line.total \o (IF line.name = project THEN addon ELSE <<>>)>>

\* list_projects, "Report": one row per project line, in file order
list_rows(exists, lines, pf, addon) ==
    Result(Ok, exists, lines,
           [total |-> None, punch |-> None, created |-> FALSE,
            rows |-> [k \in 1..Len(pf.lines.projects) |->
                         list_row(pf.lines.projects[k], pf.project, addon)]])

\* list_projects once the line is parsed: reads only
list_projects_line(exists, lines, pf, pl, t) ==
    IF pl.err # Ok THEN Result(pl.err, exists, lines, NoReport)
    ELSE IF pf.finished THEN list_rows(exists, lines, pf, <<>>)
    ELSE list_rows(exists, lines, pf, <<" ", "+">> \o fnum(t - pl.last[1]))

\* list_projects once the file is parsed
list_projects_file(exists, lines, pf, t) ==
    IF pf.err # Ok THEN Result(pf.err, exists, lines, NoReport)
    ELSE list_projects_line(exists, lines, pf,
                            parse_line(pf.lines, pf.project, pf.finished), t)

\* list_projects() run at datetime t
list_projects(exists, lines, t) ==
    list_projects_file(exists, lines, parse_file(exists, lines, None, t), t)

----------------------------------------------------------------------------
\* The program: one command per run, dispatched by __main__

VARIABLES
    exists,     \* whether punches.txt exists
    lines,      \* its contents: header fields and project lines
    now,        \* the wall clock, in ticks
    call,       \* the command last run and its arguments
    outcome,    \* how it ended
    report,     \* what it printed about totals
    secs,       \* a number of seconds handed to fnum on its own
    text        \* what fnum made of it, <<>> before the call

vars == <<exists, lines, now, call, outcome, report, secs, text>>

Instants ==
    {s * TicksPerSec : s \in InstantSecs} \cup {s * TicksPerSec + 1 : s \in FracSecs}

NumPunches(ls) ==
    SumSeq([i \in 1..Len(ls.projects) |-> Len(ls.projects[i].punches)])

Init ==
    /\ exists = FALSE
    /\ lines = FreshLines(0)
    /\ now = Min(Instants)
    /\ call = [op |-> "none", project |-> None, time |-> None]
    /\ outcome = Ok
    /\ report = NoReport
    /\ secs = 0
    /\ text = <<>>

\* a run ends: what it wrote and what it reported
Finish(c, r) ==
    /\ call' = c
    /\ exists' = r.exists
    /\ lines' = r.lines
    /\ outcome' = r.outcome
    /\ report' = r.report
    /\ UNCHANGED <<secs, text>>

\* time passes between two runs
Advance ==
    /\ \E t \in Instants : t > now /\ now' = t
    /\ UNCHANGED <<exists, lines, call, outcome, report, secs, text>>

\* clock in [project_name] [hour:minute]
ClockIn ==
    \E project \in {None} \cup {Some(p) : p \in RawNames},
       time \in {None} \cup {Some(hm) : hm \in HMArgs} :
        /\ NumPunches(lines) < MaxPunches
        /\ Finish([op |-> "in", project |-> project, time |-> time],
                  clock_in(exists, lines, project, time, now))
        /\ UNCHANGED now

\* clock out [hour:minute]; refused by __main__ when punches.txt is missing
ClockOut ==
    \E time \in {None} \cup {Some(hm) : hm \in HMArgs} :
        /\ Finish([op |-> "out", project |-> None, time |-> time],
                  IF ~exists
                  THEN Result(NoPunchesYet, exists, lines, NoReport)
                  ELSE clock_out(exists, lines, time, now))
        /\ UNCHANGED now

\* clock switch project_name
SwitchProject ==
    \E project \in RawNames :
        /\ NumPunches(lines) < MaxPunches
        /\ Finish([op |-> "switch", project |-> Some(project), time |-> None],
                  switch_project(exists, lines, project, now))
        /\ UNCHANGED now

\* clock; answered by __main__ itself when punches.txt is missing
Status ==
    /\ Finish([op |-> "status", project |-> None, time |-> None],
              IF ~exists
              THEN Result(NoPunchesYet, exists, lines, NoReport)
              ELSE check_time(exists, lines, now))
    /\ UNCHANGED now

\* clock project [project_name]; refused when punches.txt is missing
ProjectReport ==
    \E project \in {None} \cup {Some(p) : p \in RawNames} :
        /\ Finish([op |-> "project", project |-> project, time |-> None],
                  IF ~exists
                  THEN Result(NoPunchesYet, exists, lines, NoReport)
                  ELSE report_project(exists, lines, project, now))
        /\ UNCHANGED now

\* clock list; refused when punches.txt is missing
ListProjects ==
    /\ Finish([op |-> "list", project |-> None, time |-> None],
              IF ~exists
              THEN Result(NoPunchesYet, exists, lines, NoReport)
              ELSE list_projects(exists, lines, now))
    /\ UNCHANGED now

Next ==
    \/ Advance \/ ClockIn \/ ClockOut \/ SwitchProject
    \/ Status \/ ProjectReport \/ ListProjects

Spec == Init /\ [][Next]_vars

\* fnum on its own: a number of seconds is chosen, then formatted

FnumInputs == (0..MaxSmallSecs) \cup LargeSecs

FnumInit ==
    /\ exists = FALSE
    /\ lines = FreshLines(0)
    /\ now = Min(Instants)
    /\ call = [op |-> "none", project |-> None, time |-> None]
    /\ outcome = Ok
    /\ report = NoReport
    /\ secs \in FnumInputs
    /\ text = <<>>

Choose ==
    /\ secs' \in FnumInputs
    /\ text' = <<>>
    /\ UNCHANGED <<exists, lines, now, call, outcome, report>>

Format ==
    /\ text = <<>>
    /\ text' = fnum(secs * TicksPerSec)
    /\ UNCHANGED <<exists, lines, now, call, outcome, report, secs>>

FnumNext == Choose \/ Format

FnumSpec == FnumInit /\ [][FnumNext]_vars

----------------------------------------------------------------------------
\* Vocabulary of the properties

\* this step is one run of the command op (time stands still during a run)
Ran(op) == now' = now /\ call'.op = op

LedgerUnchanged == exists' = exists /\ lines' = lines

IsOpen(punch) == Len(punch) = 1
IsClosed(punch) == Len(punch) = 2

LastPunchOpen(rec) == rec.punches # <<>> /\ IsOpen(rec.punches[Len(rec.punches)])

\* indices of the records called exactly name
Named(ls, name) == {i \in 1..Len(ls.projects) : ls.projects[i].name = name}

\* indices of the records holding an open punch
WithOpenPunch(ls) ==
    {i \in 1..Len(ls.projects) :
        \E k \in 1..Len(ls.projects[i].punches) : IsOpen(ls.projects[i].punches[k])}

\* seconds between in and out, summed over the closed punches of a record
ClosedSeconds(rec) ==
    SumSeq([k \in 1..Len(rec.punches) |->
               IF IsClosed(rec.punches[k])
               THEN rec.punches[k][2] - rec.punches[k][1] ELSE 0])

NumClosed(rec) ==
    Cardinality({k \in 1..Len(rec.punches) : IsClosed(rec.punches[k])})

EmptyRecord(name) == [name |-> name, total |-> <<"0">>, punches |-> <<>>]

----------------------------------------------------------------------------
\* C1: in every reachable ledger at most one project has an open punch, an
\* open punch is the last punch of its project, and clocked_in is YES exactly
\* when a record named last_project exists and its last punch is open.
C1_SingleOpenPunch ==
    /\ Cardinality(WithOpenPunch(lines)) <= 1
    /\ \A i \in 1..Len(lines.projects) :
          \A k \in 1..Len(lines.projects[i].punches) :
              IsOpen(lines.projects[i].punches[k])
                  => k = Len(lines.projects[i].punches)
    /\ (lines.clocked_in = YES)
          <=> \E i \in Named(lines, lines.last_project) :
                  LastPunchOpen(lines.projects[i])

\* C2: "in" run while clocked in, with any project and time arguments, ends
\* in AlreadyClockedIn and leaves the ledger as it was.
C2_ClockInWhileIn ==
    [][(lines.clocked_in = YES /\ Ran("in"))
          => (outcome' = AlreadyClockedIn /\ LedgerUnchanged)]_vars

C2_Witness ==
    /\ call.op = "in" /\ call.project # None /\ call.time # None
    /\ outcome = AlreadyClockedIn
    /\ lines.clocked_in = YES

\* C3 as stated: "out" run while clocked out, with or without a time, ends
\* in AlreadyClockedOut and leaves the ledger as it was.
C3_Original ==
    [][(lines.clocked_in = NO /\ Ran("out"))
          => (outcome' = AlreadyClockedOut /\ LedgerUnchanged)]_vars

\* C3 amended: "out" run while clocked out leaves the ledger as it was; it
\* ends in AlreadyClockedOut when punches.txt exists, and is refused with
\* "no punches yet" when there is no punches.txt yet.
C3_ClockOutWhileOut ==
    [][(lines.clocked_in = NO /\ Ran("out"))
          => /\ LedgerUnchanged
             /\ outcome' = IF exists THEN AlreadyClockedOut ELSE NoPunchesYet]_vars

C3_Witness ==
    /\ call.op = "out" /\ call.time # None
    /\ outcome = AlreadyClockedOut
    /\ lines.clocked_in = NO /\ lines.last_project # <<>>

\* C4: "out" run while clocked in with an hour:minute that, on today's date,
\* is at or before the open punch's time_in ends in InvalidClockOutTime and
\* leaves the ledger as it was.
C4_BackdatedOutTooEarly ==
    [][(/\ lines.clocked_in = YES /\ Ran("out") /\ call'.time # None
        /\ \E i \in WithOpenPunch(lines) :
              LET ps == lines.projects[i].punches
              IN TodayAt(now, call'.time[1]) <= Strptime(ps[Len(ps)][1]))
          => (outcome' = InvalidClockOutTime /\ LedgerUnchanged)]_vars

\* C5: "out" run while clocked in with an hour:minute that, on today's date,
\* is later than the open punch's time_in succeeds: the open punch gets that
\* time as its time_out and clocked_in becomes NO.
C5_BackdatedOutLater ==
    [][(/\ lines.clocked_in = YES /\ Ran("out") /\ call'.time # None
        /\ \E i \in WithOpenPunch(lines) :
              LET ps == lines.projects[i].punches
              IN TodayAt(now, call'.time[1]) > Strptime(ps[Len(ps)][1]))
          => /\ outcome' = Ok
             /\ lines'.clocked_in = NO
             /\ \A i \in WithOpenPunch(lines) :
                   LET ps == lines.projects[i].punches
                   IN lines'.projects[i].punches =
                         [ps EXCEPT ![Len(ps)] =
                             <<ps[Len(ps)][1],
                               Strftime(TodayAt(now, call'.time[1]))>>]]_vars

\* C6: when "switch" succeeds while clocked in, the open punch of the project
\* named last_project is closed, the last punch of the project named
\* newProject is a new open punch whose time_in is that time_out, and
\* afterwards last_project = newProject and clocked_in is still YES.
C6_SwitchNoGap ==
    [][(lines.clocked_in = YES /\ Ran("switch") /\ outcome' = Ok)
          => LET new == Lower(call'.project[1])
             IN /\ lines'.last_project = new
                /\ lines'.clocked_in = YES
                /\ \E j \in Named(lines, lines.last_project),
                      i \in Named(lines', new) :
                      LET old == lines.projects[j].punches
                          old2 == lines'.projects[j].punches
                          new2 == lines'.projects[i].punches
                      IN /\ LastPunchOpen(lines.projects[j])
                         /\ Len(old2) >= Len(old)
                         /\ IsClosed(old2[Len(old)])
                         /\ old2[Len(old)][1] = old[Len(old)][1]
                         /\ LastPunchOpen(lines'.projects[i])
                         /\ new2[Len(new2)][1] = old2[Len(old)][2]]_vars

\* C7: "switch" to any project run while clocked in succeeds and leaves
\* exactly the ledger that "out" followed by "in" of that project, both at
\* the same instant, leaves.
C7_SwitchIsOutThenIn ==
    [][(lines.clocked_in = YES /\ Ran("switch"))
          => LET o == clock_out(exists, lines, None, now)
                 i == clock_in(o.exists, o.lines, call'.project, None, now)
             IN /\ outcome' = Ok
                /\ o.outcome = Ok /\ i.outcome = Ok
                /\ lines' = i.lines]_vars

\* C8: "switch" run while clocked out on a ledger with a last_project only
\* sets last_project and, if no record is named newProject, appends an empty
\* record for it; no punch changes and clocked_in stays NO.
C8_SwitchWhileOut ==
    [][(/\ exists /\ lines.clocked_in = NO /\ lines.last_project # <<>>
        /\ Ran("switch"))
          => LET new == Lower(call'.project[1])
             IN /\ outcome' = Ok
                /\ lines' = [lines EXCEPT
                      !.last_project = new,
                      !.projects = IF Named(lines, new) = {}
                                   THEN Append(@, EmptyRecord(new)) ELSE @]]_vars

\* C9: "in" without a project run while clocked out opens a new punch on the
\* project named last_project; with an empty last_project it ends in
\* NoProjectSpecified and leaves the ledger as it was.
C9_ClockInDefaultProject ==
    [][(lines.clocked_in = NO /\ Ran("in") /\ call'.project = None)
          => IF lines.last_project = <<>>
             THEN outcome' = NoProjectSpecified /\ LedgerUnchanged
             ELSE /\ outcome' = Ok
                  /\ lines'.clocked_in = YES
                  /\ \E i \in Named(lines, lines.last_project) :
                        /\ lines'.projects[i].name = lines.last_project
                        /\ Len(lines'.projects[i].punches)
                              = Len(lines.projects[i].punches) + 1
                        /\ LastPunchOpen(lines'.projects[i])]_vars

\* C10: after a successful "out", and after "status" while clocked out, the
\* reported project total is the rendering of exactly the sum of
\* (time_out - time_in) over the closed punches of the project named
\* last_project, however the time is split into punches.
C10_TotalIsSumOfPunches ==
    (outcome = Ok /\ call.op \in {"out", "status"} /\ lines.clocked_in = NO)
        => \A i \in Named(lines, lines.last_project) :
              LET sum == ClosedSeconds(lines.projects[i])
                  p == fnumParts(sum * TicksPerSec)
              IN /\ report.total = Some(fnum(sum * TicksPerSec))
                 /\ p[1] * SEC_PER_HOUR + p[2] * SEC_PER_MIN + p[3] = sum

C10_Witness ==
    /\ outcome = Ok /\ call.op = "out" /\ lines.clocked_in = NO
    /\ \E i \in Named(lines, lines.last_project) :
          /\ NumClosed(lines.projects[i]) >= 2
          /\ ClosedSeconds(lines.projects[i]) > 0

----------------------------------------------------------------------------
\* More vocabulary

Max(S) == CHOOSE x \in S : \A y \in S : x >= y

\* the number a rendered total stands for: "h:m:s" or a lone integer
DigitVal(c) == CHOOSE d \in 0..9 : Digit(d) = c
RECURSIVE ParseNat(_)
ParseNat(s) == IF s = <<>> THEN 0 ELSE ParseNat(Front(s)) * 10 + DigitVal(s[Len(s)])
ParseInt(s) == IF s # <<>> /\ s[1] = "-" THEN 0 - ParseNat(Tail(s)) ELSE ParseNat(s)
TextSeconds(tx) ==
    LET C == {i \in 1..Len(tx) : tx[i] = ":"}
    IN IF C = {} THEN ParseInt(tx)
       ELSE ParseInt(SubSeq(tx, 1, Min(C) - 1)) * SEC_PER_HOUR
            + ParseInt(SubSeq(tx, Min(C) + 1, Max(C) - 1)) * SEC_PER_MIN
            + ParseInt(SubSeq(tx, Max(C) + 1, Len(tx)))

\* an integer written with at least two digits
Pad2(n) == IF n < 10 THEN <<"0">> \o NatStr(n) ELSE NatStr(n)

\* the project a successful "in" or "out" is aimed at
Target(ls, c) == IF c.project # None THEN Lower(c.project[1]) ELSE ls.last_project

----------------------------------------------------------------------------
\* C11: when a successful "in" or "switch" names a project that is not
\* exactly the name of a record, a record of that name is appended after all
\* existing ones, created is reported and the existing records are untouched
\* (but for the punch a switch closes); when it is exactly the name of a
\* record no record is added and created is not reported.
C11_ExactNameLookup ==
    [][(/\ now' = now /\ call'.op \in {"in", "switch"} /\ call'.project # None
        /\ outcome' = Ok)
          => LET n == Lower(call'.project[1])
                 k == Len(lines.projects)
             IN IF Named(lines, n) = {}
                THEN /\ Len(lines'.projects) = k + 1
                     /\ lines'.projects[k + 1].name = n
                     /\ report'.created
                     /\ \A i \in 1..k :
                           \/ lines'.projects[i] = lines.projects[i]
                           \/ call'.op = "switch" /\ i \in WithOpenPunch(lines)
                ELSE /\ Len(lines'.projects) = k
                     /\ ~report'.created]_vars

\* C12: in every reachable ledger last_project is empty only if there are no
\* projects, and when it is not empty it is exactly the name of a record.
C12_LastProjectNamesARecord ==
    /\ lines.last_project = <<>> => lines.projects = <<>>
    /\ lines.last_project # <<>> => Named(lines, lines.last_project) # {}

\* C13: every step is append-only: no record and no punch is removed, every
\* punch keeps its time_in, every closed punch keeps its time_out, and the
\* only change to an existing punch is the closing of the open last punch
\* of a project.
C13_AppendOnly ==
    [][/\ Len(lines'.projects) >= Len(lines.projects)
       /\ \A i \in 1..Len(lines.projects) :
             LET old == lines.projects[i].punches
                 new == lines'.projects[i].punches
             IN /\ lines'.projects[i].name = lines.projects[i].name
                /\ Len(new) >= Len(old)
                /\ \A k \in 1..Len(old) :
                      \/ new[k] = old[k]
                      \/ /\ IsOpen(old[k]) /\ k = Len(old)
                         /\ IsClosed(new[k]) /\ new[k][1] = old[k][1]]_vars

C13_Witness ==
    /\ call.op = "in" /\ outcome = Ok
    /\ \E i \in 1..Len(lines.projects) :
          /\ Len(lines.projects[i].punches) >= 2
          /\ IsClosed(lines.projects[i].punches[1])
          /\ LastPunchOpen(lines.projects[i])

\* C14: in every reachable ledger the punches of a project are stored oldest
\* first: a punch's time_in is not earlier than the time_out of the punch
\* before it.
C14_PunchesInOrder ==
    \A i \in 1..Len(lines.projects) :
        LET ps == lines.projects[i].punches
        IN \A k \in 1..(Len(ps) - 1) :
              IsClosed(ps[k]) => ps[k + 1][1] >= ps[k][2]

\* C15: status, project report and list leave the ledger as it was, also a
\* project report for a name that has no record.
C15_ReadOnly ==
    [][(now' = now /\ call'.op \in {"status", "project", "list"})
          => LedgerUnchanged]_vars

C15_Witness ==
    /\ call.op = "project" /\ call.project # None /\ outcome = Ok
    /\ report.created
    /\ Named(lines, Lower(call.project[1])) = {}
    /\ FindLine(lines.projects, Lower(call.project[1])) = 0

\* C16: list shows every project once, in file order, with its stored
\* total; while clocked in the project holding the open punch, and only it,
\* also carries " +" and the rendering of now - time_in of the open punch.
C16_ListRows ==
    [][(exists /\ Ran("list"))
          => /\ outcome' = Ok
             /\ report'.rows =
                   [k \in 1..Len(lines.projects) |->
                       LET rec == lines.projects[k]
                       IN <<rec.name,
                            rec.total \o
                               (IF lines.clocked_in = YES /\ LastPunchOpen(rec)
                                THEN <<" ", "+">> \o
                                     fnum(now - Strptime(
                                         rec.punches[Len(rec.punches)][1]))
                                ELSE <<>>)>>]]_vars

\* C17: fnum renders s whole seconds as H:MM:SS with H = floor(s/3600),
\* MM = floor((s mod 3600)/60), SS = s mod 60, minutes and seconds written
\* with two digits.
C17_FnumTwoDigits ==
    text # <<>>
        => text = IntStr(secs \div SEC_PER_HOUR) \o <<":">>
                  \o Pad2((secs % SEC_PER_HOUR) \div SEC_PER_MIN) \o <<":">>
                  \o Pad2(secs % SEC_PER_MIN)

\* C18: in every reachable ledger the total stored in a project's line
\* stands for the sum of the durations of its closed punches; an open punch
\* adds nothing.
C18_StoredTotal ==
    \A i \in 1..Len(lines.projects) :
        TextSeconds(lines.projects[i].total) = ClosedSeconds(lines.projects[i])

C18_Witness ==
    \E i \in 1..Len(lines.projects) :
        /\ LastPunchOpen(lines.projects[i])
        /\ NumClosed(lines.projects[i]) >= 2
        /\ ClosedSeconds(lines.projects[i]) > 0
        /\ TextSeconds(lines.projects[i].total) > 0

\* C19: in every reachable ledger every closed punch has a time_out that is
\* not earlier than its time_in.
C19_NoNegativePunch ==
    \A i \in 1..Len(lines.projects) :
        \A k \in 1..Len(lines.projects[i].punches) :
            LET punch == lines.projects[i].punches[k]
            IN IsClosed(punch) => punch[2] >= punch[1]

\* C20: created_at never changes once punches.txt exists, and a successful
\* "in" or "out" keeps the order of the records and leaves every record but
\* the one of its target project as it was.
C20_OnlyTargetChanges ==
    [][/\ exists => lines'.created = lines.created
       /\ (now' = now /\ call'.op \in {"in", "out"} /\ outcome' = Ok)
             => /\ Len(lines'.projects) >= Len(lines.projects)
                /\ \A i \in 1..Len(lines.projects) :
                      /\ lines'.projects[i].name = lines.projects[i].name
                      /\ lines.projects[i].name # Target(lines, call')
                            => lines'.projects[i] = lines.projects[i]]_vars

====
